---- MODULE Spec2Model ----
(***************************************************************************)
(* MultiModelProvider (nanobot/providers/multi_model_provider.py): a chat  *)
(* dispatcher that tries the configured models in order, falls back to the *)
(* next one on a raised exception or an error response, and caches one     *)
(* provider client per model identifier.                                   *)
(*                                                                         *)
(* Python values.  A `str | None` is a sequence of length 0 (None) or 1    *)
(* (the string), so that None and "" stay different values; the same for   *)
(* `list[str] | None`.  Strings are TLA+ strings: Len, \o and SubSeq act   *)
(* on them as len(), + and slicing do.                                     *)
(*                                                                         *)
(* Scheduling.  chat() is a coroutine: it runs without interruption from   *)
(* one await to the next, and its only await is the backend call (line     *)
(* 114).  _get_provider_for_model is synchronous, hence one atomic step.   *)
(* The model cuts the coroutine at pc "loop" (top of the for loop) and     *)
(* "await" (inside provider.chat), which allows every interleaving the     *)
(* event loop allows and a few more.                                       *)
(*                                                                         *)
(* last_error (lines 106, 129, 141) is assigned and never read; it is not  *)
(* part of the state.  The logger calls below debug level are kept in      *)
(* `log`.                                                                  *)
(***************************************************************************)
EXTENDS Naturals, Sequences, FiniteSets, TLC

\* ------------------------------------------------------------- bounds
\* Longest configured model list handed to the constructor.
MaxModels == 2

\* ------------------------------------------------- program constants
\* e[:50] / len(e) > 50 in the error summary.
MaxErrorLen == 50

None == <<>>
Some(v) == <<v>>

\* ------------------------------------------------------ input domains
\* Model identifiers that occur in configured lists.
ModelIds == {"a/x", "b/y"}
DefaultModels == {"d/z"}
\* The coroutines (concurrent chat() calls on the one dispatcher).
Calls == {"c1", "c2"}

RECURSIVE SeqsUpTo(_, _)
SeqsUpTo(S, n) ==
    IF n = 0 THEN {<<>>}
    ELSE LET shorter == SeqsUpTo(S, n - 1)
         IN  shorter \cup {Append(s, x) : s \in shorter, x \in S}

\* The `models` argument of the constructor: None, [] or a list that may
\* hold a model more than once (nothing validates the configuration).
ModelsArgs == {None} \cup {Some(l) : l \in SeqsUpTo(ModelIds, MaxModels)}

\* The same for the specification of concurrent calls, which draws every
\* input from a smaller set (the product of two calls' states is explored):
\* no list, the longest list of alternating models, the longest list of one
\* repeated model.
ConcModelsArgs ==
    {None,
     Some([i \in 1..MaxModels |-> IF i % 2 = 1 THEN "a/x" ELSE "b/y"]),
     Some([i \in 1..MaxModels |-> "a/x"])}

Msg50 == "12345678901234567890123456789012345678901234567890"
Msg51 == "123456789012345678901234567890123456789012345678901"

\* A model identifier of 63 characters with the "openai-codex/" prefix.
LongModel == "openai-codex/" \o Msg50

\* The `model` argument of chat(): None, "", a configured model, the default
\* model, or a model no list holds.
Requested == {None, Some(""), Some("a/x"), Some("b/y"), Some("d/z"), Some(LongModel)}
ConcRequested == {None, Some("b/y")}

\* What a backend's chat() may return (LLMResponse.content, .finish_reason).
Resp(content, fr) == [content |-> content, finish_reason |-> fr]
Responses ==
    { Resp(Some("hi"), "stop"),
      Resp(None, "tool_calls"),
      Resp(Some(""), "stop"),
      Resp(Some("Error calling LLM"), "stop"),
      Resp(Some("Error calling LLM: timeout"), "stop"),
      Resp(None, "error"),
      Resp(Some(""), "error"),
      Resp(Some(Msg50), "error") }
ConcResponses == {Resp(Some("hi"), "stop"), Resp(None, "error")}

\* str(e) of what a backend's chat() may raise.
Exceptions == {"timeout", Msg51}
ConcExceptions == {"timeout"}

\* str(e) of what resolving a client may raise (a constructor that fails).
ResolveError == "no credentials"

\* config.get_provider_name(model): two configurations, before and after a
\* change of the configuration object.
Config1 == [m \in {"a/x", "b/y", "d/z", LongModel} |->
              CASE m = "a/x" -> Some("anthropic")
                [] m = "b/y" -> Some("custom")
                [] m = "d/z" -> None
                [] OTHER     -> Some("custom")]
Config2 == [m \in {"a/x", "b/y", "d/z", LongModel} |->
              CASE m = "a/x" -> Some("custom")
                [] m = "b/y" -> Some("openai_codex")
                [] m = "d/z" -> Some("anthropic")
                [] OTHER     -> None]

VARIABLES
    models_arg,      \* ghost: the `models` argument the constructor got
    models,          \* self.models
    default_model,   \* self.default_model
    config,          \* self.config (provider name per model)
    providers,       \* self._providers: model -> client
    next_id,         \* identity of the next client object constructed
    lookups,         \* ghost: number of config.get_provider_name calls
    first_built,     \* ghost: model -> the first client stored for it
    pc,              \* per call: "idle", "loop", "await", "done", "raised"
    model,           \* per call: the `model` argument
    models_to_try,   \* per call
    idx,             \* per call: loop index (0-based, as enumerate)
    errors,          \* per call: list of (model_name, message)
    provider,        \* per call: the client the current try resolved
    outcomes,        \* ghost, per call: how each try ended, in try order
    result,          \* per call: what chat() returned
    tried,           \* ghost, per call: models handed to _get_provider_for_model
    invoked,         \* ghost, per call: models whose backend chat() was called
    log,             \* ghost, per call: logger calls at warning/info/error level
    listed,          \* the caller's list object, as get_models returned it
    aliased,         \* is that object self.models itself
    got_models,      \* ghost: the value of the latest get_models()
    got_default,     \* ghost: the value of the latest get_default_model()
    mutated,         \* ghost: the caller has mutated its list
    seen_after       \* ghost: the operations called after such a mutation

shared == <<models_arg, models, default_model, config, providers, next_id, lookups, first_built>>
locals == <<pc, model, models_to_try, idx, errors, provider, outcomes, result,
            tried, invoked, log>>
caller == <<listed, aliased, got_models, got_default, mutated, seen_after>>
vars == <<models_arg, models, default_model, config, providers, next_id, lookups,
          first_built,
          pc, model, models_to_try, idx, errors, provider, outcomes, result,
          tried, invoked, log,
          listed, aliased, got_models, got_default, mutated, seen_after>>

\* ----------------------------------------------------- pure functions
\* Python truthiness of a `str | None` / `list | None`.
TruthyStr(o) == o # None /\ o[1] # ""
TruthyList(o) == o # None /\ o[1] # <<>>

\* s.startswith(p)
StartsWith(s, p) == Len(s) >= Len(p) /\ SubSeq(s, 1, Len(p)) = p

\* Mutant: the list is taken as given, an empty one too.
ModelsOrDefaultKeepEmpty(arg, d) == IF arg = None THEN <<>> ELSE arg[1]

\* __init__: self.models = models or [default_model]
ModelsOrDefault(arg, d) == IF TruthyList(arg) THEN arg[1] ELSE <<d>>

\* Mutant: the requested model is tried after the others.
ModelsToTryLast(m, ms) ==
    IF TruthyStr(m)
    THEN SelectSeq(ms, LAMBDA x : x # m[1]) \o <<m[1]>>
    ELSE ms

\* Mutant: the requested model is put first and the list is not filtered.
ModelsToTryNoFilter(m, ms) ==
    IF TruthyStr(m) THEN <<m[1]>> \o ms ELSE ms

\* Mutant: a repeated model is dropped from the list.
ModelsToTryDedup(m, ms) ==
    LET Firsts(l) == SelectSeq([i \in 1..Len(l) |-> <<i, l[i]>>],
                               LAMBDA p : \A j \in 1..(p[1] - 1) : l[j] # p[2])
        Dedup(l) == [i \in 1..Len(Firsts(l)) |-> Firsts(l)[i][2]]
    IN  IF TruthyStr(m)
        THEN <<m[1]>> \o SelectSeq(Dedup(ms), LAMBDA x : x # m[1])
        ELSE Dedup(ms)

\* chat, lines 96-104: the order of models to try.
ModelsToTry(m, ms) ==
    IF TruthyStr(m)
    THEN <<m[1]>> \o SelectSeq(ms, LAMBDA x : x # m[1])
    ELSE ms

\* Mutant: only the finish reason is looked at.
IsErrorResponseFinishOnly(r) == r.finish_reason = "error"

\* chat, lines 123-125: does the response indicate an error.
IsErrorResponse(r) ==
    \/ r.finish_reason = "error"
    \/ (TruthyStr(r.content) /\ StartsWith(r.content[1], "Error calling LLM:"))

\* chat, line 126: response.content or "Unknown error"
ErrorMsg(r) == IF TruthyStr(r.content) THEN r.content[1] ELSE "Unknown error"

\* Mutant: the cut starts at 50 characters, not above.
FormatErrorFrom50(m, e) ==
    IF Len(e) >= MaxErrorLen
    THEN m \o ": " \o SubSeq(e, 1, MaxErrorLen) \o "..."
    ELSE m \o ": " \o e

\* chat, line 145: one item of the summary.
FormatError(m, e) ==
    IF Len(e) > MaxErrorLen
    THEN m \o ": " \o SubSeq(e, 1, MaxErrorLen) \o "..."
    ELSE m \o ": " \o e

\* "; ".join(...)
RECURSIVE Join(_, _)
Join(sep, ss) ==
    IF ss = <<>> THEN ""
    ELSE IF Len(ss) = 1 THEN ss[1]
    ELSE ss[1] \o sep \o Join(sep, Tail(ss))

\* Mutant: only the last error is reported (last_error, lines 129 and 141).
ErrorSummaryLast(errs) ==
    IF errs = <<>> THEN ""
    ELSE FormatError(errs[Len(errs)][1], errs[Len(errs)][2])

ErrorSummary(errs) ==
    Join("; ", [i \in 1..Len(errs) |-> FormatError(errs[i][1], errs[i][2])])

\* chat, lines 149-152.
AllFailedResponse(errs) ==
    Resp(Some("Error: All models failed. " \o ErrorSummary(errs)), "error")

\* Mutant: the provider name "custom" is looked at first.
ClientKindCustomFirst(provider_name, m) ==
    IF provider_name = Some("custom")
    THEN "CustomProvider"
    ELSE IF provider_name = Some("openai_codex") \/ StartsWith(m, "openai-codex/")
    THEN "OpenAICodexProvider"
    ELSE "LiteLLMProvider"

\* _get_provider_for_model, lines 51-68: which client class is built.
ClientKind(provider_name, m) ==
    IF provider_name = Some("openai_codex") \/ StartsWith(m, "openai-codex/")
    THEN "OpenAICodexProvider"
    ELSE IF provider_name = Some("custom")
    THEN "CustomProvider"
    ELSE "LiteLLMProvider"

NewClient(id, provider_name, m) ==
    [id |-> id, kind |-> ClientKind(provider_name, m), default_model |-> m,
     provider_name |-> IF ClientKind(provider_name, m) = "LiteLLMProvider"
                       THEN provider_name ELSE None]

\* ---------------------------------------------------------------- Init
\* Mutant: __init__ builds a client for every configured model.
ConstructedEager(args) ==
    /\ models_arg \in args
    /\ default_model \in DefaultModels
    /\ models = ModelsOrDefault(models_arg, default_model)
    /\ config = Config1
    /\ providers = [m \in {models[i] : i \in 1..Len(models)} |->
                        NewClient(0, Config1[m], m)]
    /\ next_id = 1
    /\ lookups = 0
    /\ first_built = [m \in {} |-> None]
    /\ pc = [c \in Calls |-> "idle"]
    /\ model = [c \in Calls |-> None]
    /\ models_to_try = [c \in Calls |-> <<>>]
    /\ idx = [c \in Calls |-> 0]
    /\ errors = [c \in Calls |-> <<>>]
    /\ provider = [c \in Calls |-> None]
    /\ outcomes = [c \in Calls |-> <<>>]
    /\ result = [c \in Calls |-> None]
    /\ tried = [c \in Calls |-> <<>>]
    /\ invoked = [c \in Calls |-> <<>>]
    /\ log = [c \in Calls |-> <<>>]
    /\ listed = None
    /\ aliased = FALSE
    /\ got_models = None
    /\ got_default = None
    /\ mutated = FALSE
    /\ seen_after = {}

\* The state after __init__ (lines 38-41), no call started.
Constructed(args) ==
    /\ models_arg \in args
    /\ default_model \in DefaultModels
    /\ models = ModelsOrDefault(models_arg, default_model)
    /\ config = Config1
    /\ providers = [m \in {} |-> None]
    /\ next_id = 1
    /\ lookups = 0
    /\ first_built = [m \in {} |-> None]
    /\ pc = [c \in Calls |-> "idle"]
    /\ model = [c \in Calls |-> None]
    /\ models_to_try = [c \in Calls |-> <<>>]
    /\ idx = [c \in Calls |-> 0]
    /\ errors = [c \in Calls |-> <<>>]
    /\ provider = [c \in Calls |-> None]
    /\ outcomes = [c \in Calls |-> <<>>]
    /\ result = [c \in Calls |-> None]
    /\ tried = [c \in Calls |-> <<>>]
    /\ invoked = [c \in Calls |-> <<>>]
    /\ log = [c \in Calls |-> <<>>]
    /\ listed = None
    /\ aliased = FALSE
    /\ got_models = None
    /\ got_default = None
    /\ mutated = FALSE
    /\ seen_after = {}

Init == Constructed(ModelsArgs)
InitConc == Constructed(ConcModelsArgs)

\* ------------------------------------------------------------- actions
\* Mutant: the cache is never consulted.
CachedNever(ps, name) == FALSE

\* _get_provider_for_model, line 45: `model not in self._providers` is False.
Cached(ps, name) == name \in DOMAIN ps

\* Mutant: `except TimeoutError`.
CaughtTimeoutOnly(e) == e = "timeout"

\* Mutant: the try block starts after the resolution of line 111.
CaughtBackendOnly(e) == e # ResolveError

\* chat, line 138: `except Exception` catches whatever a provider raises.
Caught(e) == TRUE

\* The model the loop is at: models_to_try[idx].
ModelName(c) == models_to_try[c][idx[c] + 1]

\* Mutant: the failure is logged and the loop continues without a record.
FailNoRecord(c, msg) ==
    /\ errors' = errors
    /\ log' = [log EXCEPT ![c] = Append(@, <<"warning", ModelName(c), msg>>)]
    /\ idx' = [idx EXCEPT ![c] = @ + 1]
    /\ pc' = [pc EXCEPT ![c] = "loop"]

\* Mutant: after a failure the same candidate is tried again.
FailRetry(c, msg) ==
    /\ errors' = [errors EXCEPT ![c] = Append(@, <<ModelName(c), msg>>)]
    /\ log' = [log EXCEPT ![c] = Append(@, <<"warning", ModelName(c), msg>>)]
    /\ idx' = idx
    /\ pc' = [pc EXCEPT ![c] = "loop"]

\* Mutant: after a failure the loop starts over at the first candidate.
FailRestart(c, msg) ==
    /\ errors' = [errors EXCEPT ![c] = Append(@, <<ModelName(c), msg>>)]
    /\ log' = [log EXCEPT ![c] = Append(@, <<"warning", ModelName(c), msg>>)]
    /\ idx' = [idx EXCEPT ![c] = 0]
    /\ pc' = [pc EXCEPT ![c] = "loop"]

\* Mutant: a failure whose message is the default "Unknown error" is
\* recorded without a log entry.
FailQuietUnknown(c, msg) ==
    /\ errors' = [errors EXCEPT ![c] = Append(@, <<ModelName(c), msg>>)]
    /\ log' = [log EXCEPT ![c] = IF msg = "Unknown error" THEN @
                                 ELSE Append(@, <<"warning", ModelName(c), msg>>)]
    /\ idx' = [idx EXCEPT ![c] = @ + 1]
    /\ pc' = [pc EXCEPT ![c] = "loop"]

\* Mutant: the failure list is one list of the dispatcher, shared by its
\* calls.
FailShared(c, msg) ==
    /\ errors' = [d \in Calls |-> Append(errors[d], <<ModelName(c), msg>>)]
    /\ log' = [log EXCEPT ![c] = Append(@, <<"warning", ModelName(c), msg>>)]
    /\ idx' = [idx EXCEPT ![c] = @ + 1]
    /\ pc' = [pc EXCEPT ![c] = "loop"]

\* chat, lines 127-130 and 139-142: log, record the failure, continue.
Fail(c, msg) ==
    /\ errors' = [errors EXCEPT ![c] = Append(@, <<ModelName(c), msg>>)]
    /\ log' = [log EXCEPT ![c] = Append(@, <<"warning", ModelName(c), msg>>)]
    /\ idx' = [idx EXCEPT ![c] = @ + 1]
    /\ pc' = [pc EXCEPT ![c] = "loop"]

\* chat, lines 110 and 138: an exception raised inside the try block, by
\* the resolution (kind "resolve_raised") or by the backend ("raised").
Raise(c, kind, e) ==
    /\ outcomes' = [outcomes EXCEPT ![c] = Append(@, <<kind, e>>)]
    /\ IF Caught(e)
       THEN Fail(c, e)
       ELSE /\ pc' = [pc EXCEPT ![c] = "raised"]
            /\ UNCHANGED <<errors, log, idx>>

\* Mutant: storing a client drops the other entries.
StoreOnly(ps, name, client) == [m \in {name} |-> client]

\* _get_provider_for_model, lines 52, 55 and 62: self._providers[model] = ...
Store(ps, name, client) ==
    [m \in DOMAIN ps \cup {name} |-> IF m = name THEN client ELSE ps[m]]

\* chat, lines 96-107: a call starts; each coroutine runs one call.
ChatStart(c, m) ==
    /\ pc[c] = "idle"
    /\ model' = [model EXCEPT ![c] = m]
    /\ models_to_try' = [models_to_try EXCEPT ![c] = ModelsToTry(m, models)]
    /\ pc' = [pc EXCEPT ![c] = "loop"]
    /\ seen_after' = IF mutated THEN seen_after \cup {"chat"} ELSE seen_after
    /\ UNCHANGED <<idx, errors, provider, outcomes, result, tried, invoked, log>>
    /\ UNCHANGED <<listed, aliased, got_models, got_default, mutated>>
    /\ UNCHANGED shared

\* chat, line 111 with _get_provider_for_model, lines 45-70, up to the await
\* of line 114: a cached client is returned as it is; otherwise the
\* configuration is read and a client is built and stored, or building raises.
GetProvider(c) ==
    /\ pc[c] = "loop"
    /\ idx[c] < Len(models_to_try[c])
    /\ tried' = [tried EXCEPT ![c] = Append(@, ModelName(c))]
    /\ UNCHANGED <<models_arg, models, default_model, config, model, models_to_try,
                   result>>
    /\ UNCHANGED caller
    /\ \/ /\ Cached(providers, ModelName(c))
          /\ provider' = [provider EXCEPT ![c] = Some(providers[ModelName(c)])]
          /\ invoked' = [invoked EXCEPT ![c] = Append(@, ModelName(c))]
          /\ pc' = [pc EXCEPT ![c] = "await"]
          /\ UNCHANGED <<providers, next_id, lookups, first_built, idx, errors,
                         outcomes, log>>
       \/ /\ ~Cached(providers, ModelName(c))
          /\ lookups' = lookups + 1
          /\ LET client == NewClient(next_id, config[ModelName(c)], ModelName(c))
             IN  /\ providers' = Store(providers, ModelName(c), client)
                 /\ provider' = [provider EXCEPT ![c] = Some(providers'[ModelName(c)])]
                 /\ first_built' = IF ModelName(c) \in DOMAIN first_built
                                   THEN first_built
                                   ELSE Store(first_built, ModelName(c), client)
          /\ next_id' = next_id + 1
          /\ invoked' = [invoked EXCEPT ![c] = Append(@, ModelName(c))]
          /\ pc' = [pc EXCEPT ![c] = "await"]
          /\ UNCHANGED <<idx, errors, outcomes, log>>
       \/ /\ ~Cached(providers, ModelName(c))
          /\ lookups' = lookups + 1
          /\ Raise(c, "resolve_raised", ResolveError)
          /\ UNCHANGED <<providers, next_id, first_built, provider, invoked>>

\* Mutant: the fallback is logged whenever there are several candidates.
IsFallbackAnyIdx(c) == Len(models_to_try[c]) > 1

\* chat, line 133: the success is a fallback, `len(models_to_try) > 1 and
\* idx > 0`.
IsFallback(c) == Len(models_to_try[c]) > 1 /\ idx[c] > 0

\* chat, lines 114-136: the backend returns r; an error response is recorded
\* and the loop continues, any other response is returned.
BackendReturn(c, r) ==
    /\ pc[c] = "await"
    /\ outcomes' = [outcomes EXCEPT ![c] = Append(@, <<"returned", r>>)]
    /\ UNCHANGED shared
    /\ UNCHANGED caller
    /\ UNCHANGED <<model, models_to_try, provider, tried, invoked>>
    /\ \/ /\ IsErrorResponse(r)
          /\ Fail(c, ErrorMsg(r))
          /\ UNCHANGED result
       \/ /\ ~IsErrorResponse(r)
          /\ log' = [log EXCEPT ![c] =
                        IF IsFallback(c)
                        THEN Append(@, <<"info", models_to_try[c][1], ModelName(c)>>)
                        ELSE @]
          /\ result' = [result EXCEPT ![c] = Some(r)]
          /\ pc' = [pc EXCEPT ![c] = "done"]
          /\ UNCHANGED <<idx, errors>>

\* chat, lines 114 and 138-142: the backend raises e.
BackendRaise(c, e) ==
    /\ pc[c] = "await"
    /\ Raise(c, "raised", e)
    /\ UNCHANGED shared
    /\ UNCHANGED caller
    /\ UNCHANGED <<model, models_to_try, provider, result, tried, invoked>>

\* chat, lines 144-152: the loop ran out of models.
AllModelsFailed(c) ==
    /\ pc[c] = "loop"
    /\ idx[c] = Len(models_to_try[c])
    /\ log' = [log EXCEPT ![c] = Append(@, <<"error", ErrorSummary(errors[c])>>)]
    /\ result' = [result EXCEPT ![c] = Some(AllFailedResponse(errors[c]))]
    /\ pc' = [pc EXCEPT ![c] = "done"]
    /\ UNCHANGED shared
    /\ UNCHANGED caller
    /\ UNCHANGED <<model, models_to_try, idx, errors, provider, outcomes, tried, invoked>>

\* The configuration object changes under the dispatcher.
ConfigChange ==
    /\ config = Config1
    /\ config' = Config2
    /\ UNCHANGED <<models_arg, models, default_model, providers, next_id, lookups,
                   first_built>>
    /\ UNCHANGED locals
    /\ UNCHANGED caller

\* Mutant: get_models returns self.models itself.
ReturnsSelf == FALSE

\* get_models, line 160: self.models.copy() is a new list object.
ReturnsCopy == TRUE

\* get_models, lines 158-160.
GetModels ==
    /\ got_models' = Some(models)
    /\ listed' = Some(models)
    /\ aliased' = ~ReturnsCopy
    /\ seen_after' = IF mutated THEN seen_after \cup {"models"} ELSE seen_after
    /\ UNCHANGED <<got_default, mutated>>
    /\ UNCHANGED shared
    /\ UNCHANGED locals

\* What a caller may do to the list it got: lst.clear(), lst[0] = "d/z",
\* lst.reverse().
MutatedList(l, op) ==
    CASE op = "clear"   -> <<>>
      [] op = "set0"    -> IF l = <<>> THEN l ELSE [l EXCEPT ![1] = "d/z"]
      [] op = "reverse" -> [i \in 1..Len(l) |-> l[Len(l) + 1 - i]]

\* The caller mutates the list get_models (lines 158-160) gave it; the
\* dispatcher's list changes with it when the two are one object.
MutateListed(op) ==
    /\ listed # None
    /\ MutatedList(listed[1], op) # listed[1]
    /\ listed' = Some(MutatedList(listed[1], op))
    /\ models' = IF aliased THEN MutatedList(listed[1], op) ELSE models
    /\ mutated' = TRUE
    /\ UNCHANGED <<aliased, got_models, got_default, seen_after>>
    /\ UNCHANGED <<models_arg, default_model, config, providers, next_id, lookups,
                   first_built>>
    /\ UNCHANGED locals

\* get_default_model, lines 154-156.
GetDefaultModel ==
    /\ got_default' = Some(IF models # <<>> THEN models[1] ELSE default_model)
    /\ seen_after' = IF mutated THEN seen_after \cup {"default"} ELSE seen_after
    /\ UNCHANGED <<listed, aliased, got_models, mutated>>
    /\ UNCHANGED shared
    /\ UNCHANGED locals

\* One call, every input.
Next ==
    \/ \E m \in Requested : ChatStart("c1", m)
    \/ GetProvider("c1")
    \/ \E r \in Responses : BackendReturn("c1", r)
    \/ \E e \in Exceptions : BackendRaise("c1", e)
    \/ AllModelsFailed("c1")
    \/ ConfigChange

Spec == Init /\ [][Next]_vars

\* chat, line 114: the awaited backend call ends, by a return or a raise.
BackendEnds(c) ==
    \/ \E r \in Responses : BackendReturn(c, r)
    \/ \E e \in Exceptions : BackendRaise(c, e)

\* The event loop runs a coroutine up to its next await (lines 109-114 and
\* 123-152), and every backend call awaited at line 114 ends.
Fairness ==
    \A c \in Calls :
        /\ WF_vars(GetProvider(c))
        /\ WF_vars(BackendEnds(c))
        /\ WF_vars(AllModelsFailed(c))

\* One call, every input, the configuration left as it is.
NextFair ==
    \/ \E m \in Requested : ChatStart("c1", m)
    \/ GetProvider("c1")
    \/ BackendEnds("c1")
    \/ AllModelsFailed("c1")

SpecFair == Init /\ [][NextFair]_vars /\ Fairness

\* Concurrent calls on the one dispatcher.
NextConc ==
    \/ \E c \in Calls, m \in ConcRequested : ChatStart(c, m)
    \/ \E c \in Calls : GetProvider(c)
    \/ \E c \in Calls, r \in ConcResponses : BackendReturn(c, r)
    \/ \E c \in Calls, e \in ConcExceptions : BackendRaise(c, e)
    \/ \E c \in Calls : AllModelsFailed(c)
    \/ ConfigChange

SpecConc == InitConc /\ [][NextConc]_vars

\* One call and a caller that reads the accessors and mutates what it got.
NextAccess ==
    \/ GetModels
    \/ \E op \in {"clear", "set0", "reverse"} : MutateListed(op)
    \/ GetDefaultModel
    \/ \E m \in ConcRequested : ChatStart("c1", m)
    \/ GetProvider("c1")
    \/ \E r \in ConcResponses : BackendReturn("c1", r)
    \/ \E e \in ConcExceptions : BackendRaise("c1", e)
    \/ AllModelsFailed("c1")

SpecAccess == Init /\ [][NextAccess]_vars

\* ============================================================== properties
Started(c) == pc[c] # "idle"
Returned(c) == pc[c] = "done"

\* l with every occurrence of x removed, order kept.
RECURSIVE Without(_, _)
Without(l, x) ==
    IF l = <<>> THEN <<>>
    ELSE IF Head(l) = x THEN Without(Tail(l), x)
    ELSE <<Head(l)>> \o Without(Tail(l), x)

NoDuplicates(l) == \A i, j \in 1..Len(l) : l[i] = l[j] => i = j

Occurs(x, l) == \E i \in 1..Len(l) : l[i] = x

\* C1: with a non-empty requested model, the candidate list is the requested
\* model followed by the configured models (self.models) other than it, in
\* their configured order, whether or not the requested model is configured.
C1_RequestedFirst ==
    \A c \in Calls :
        (Started(c) /\ model[c] # None /\ model[c] # Some(""))
            => /\ Head(models_to_try[c]) = model[c][1]
               /\ Tail(models_to_try[c]) = Without(models, model[c][1])

\* A call that requested the second of two configured models.
C1_Witness ==
    \E c \in Calls :
        /\ Started(c)
        /\ models = <<"a/x", "b/y">>
        /\ model[c] = Some("b/y")
        /\ models_to_try[c] = <<"b/y", "a/x">>

\* C5 as stated: no candidate list holds a model twice.
C5_Original ==
    \A c \in Calls : Started(c) => NoDuplicates(models_to_try[c])

\* C5, amended: when the configured list (self.models) holds no model
\* twice, no candidate list does, whatever model is requested.
C5_NoDuplicates ==
    \A c \in Calls :
        (Started(c) /\ NoDuplicates(models)) => NoDuplicates(models_to_try[c])

\* A call that requested a model of a two-model list without repetition.
C5_Witness ==
    \E c \in Calls :
        /\ Started(c)
        /\ Len(models) > 1
        /\ NoDuplicates(models)
        /\ model[c] # None
        /\ Occurs(model[c][1], models)
        /\ Len(models_to_try[c]) = Len(models)

\* The constructor got no list or an empty one.
NoneConfigured == models_arg = None \/ models_arg = Some(<<>>)

\* C6 as stated: with no model configured every candidate list is
\* [default_model].
C6_Original ==
    \A c \in Calls :
        (Started(c) /\ NoneConfigured) => models_to_try[c] = <<default_model>>

\* C6, amended: with no model configured, the candidate list of a call that
\* requests no model (None or "") or the default model is [default_model].
C6_DefaultOnly ==
    \A c \in Calls :
        (/\ Started(c)
         /\ NoneConfigured
         /\ model[c] \in {None, Some(""), Some(default_model)})
            => models_to_try[c] = <<default_model>>

\* A call without a requested model on a dispatcher built with models=[].
C6_Witness ==
    \E c \in Calls :
        /\ Started(c)
        /\ models_arg = Some(<<>>)
        /\ model[c] = None
        /\ Len(models_to_try[c]) = 1

\* C7: with a non-empty configured list and no requested model (None or ""),
\* the candidate list is the list the constructor got, element for element.
C7_ConfiguredOrder ==
    \A c \in Calls :
        (/\ Started(c)
         /\ ~NoneConfigured
         /\ model[c] \in {None, Some("")})
            => /\ Len(models_to_try[c]) = Len(models_arg[1])
               /\ \A i \in 1..Len(models_arg[1]) :
                      models_to_try[c][i] = models_arg[1][i]

\* A call without a requested model tried both models of ["b/y", "a/x"].
C7_Witness ==
    \E c \in Calls :
        /\ models_arg = Some(<<"b/y", "a/x">>)
        /\ model[c] = None
        /\ tried[c] = <<"b/y", "a/x">>

\* ------------------------------------------------ outcomes of the tries
\* A soft failure, as the specification words it.
SoftFailure(r) ==
    \/ r.finish_reason = "error"
    \/ /\ r.content # None
       /\ r.content[1] # ""
       /\ Len(r.content[1]) >= Len("Error calling LLM:")
       /\ SubSeq(r.content[1], 1, Len("Error calling LLM:")) = "Error calling LLM:"

\* Try i of call c ended in a hard or a soft failure.
FailedTry(c, i) ==
    \/ outcomes[c][i][1] \in {"raised", "resolve_raised"}
    \/ outcomes[c][i][1] = "returned" /\ SoftFailure(outcomes[c][i][2])

\* Try i of call c returned a response that is no soft failure.
SucceededTry(c, i) ==
    outcomes[c][i][1] = "returned" /\ ~SoftFailure(outcomes[c][i][2])

\* The message the Failure Record of a failed try carries.
FailureMessage(o) ==
    IF o[1] = "returned"
    THEN IF o[2].content = None \/ o[2].content = Some("")
         THEN "Unknown error"
         ELSE o[2].content[1]
    ELSE o[2]

\* The first n Failure Records of call c are those of its first n tries.
RecordsOfTries(c, n) ==
    /\ Len(errors[c]) = n
    /\ \A i \in 1..n :
          /\ FailedTry(c, i)
          /\ errors[c][i] = <<models_to_try[c][i], FailureMessage(outcomes[c][i])>>

\* The candidates among the first n whose resolution did not raise, in try
\* order: those whose backend was called.
RECURSIVE BackendsCalled(_, _)
BackendsCalled(c, n) ==
    IF n = 0 THEN <<>>
    ELSE IF outcomes[c][n][1] = "resolve_raised"
    THEN BackendsCalled(c, n - 1)
    ELSE Append(BackendsCalled(c, n - 1), models_to_try[c][n])

\* C2: when try k+1 is the first to return a response that is no error, the
\* call returns that response unchanged, holds k Failure Records, those of
\* the k tries before it in try order, and has resolved and invoked no
\* candidate after it.
C2_FirstSuccessReturned ==
    \A c \in Calls : \A j \in 1..Len(outcomes[c]) :
        SucceededTry(c, j)
            => /\ Returned(c)
               /\ result[c] = Some(outcomes[c][j][2])
               /\ Len(outcomes[c]) = j
               /\ RecordsOfTries(c, j - 1)
               /\ tried[c] = SubSeq(models_to_try[c], 1, j)
               /\ invoked[c] = BackendsCalled(c, j)

\* The first of three candidates raised, the second answered, the third was
\* never resolved.
C2_Witness ==
    \E c \in Calls :
        /\ Returned(c)
        /\ models_to_try[c] = <<"d/z", "a/x", "b/y">>
        /\ errors[c] = << <<"d/z", "timeout">> >>
        /\ result[c] = Some(Resp(Some("hi"), "stop"))
        /\ tried[c] = <<"d/z", "a/x">>

\* Every candidate of call c was tried and failed.
AllFailed(c) ==
    /\ Len(outcomes[c]) = Len(models_to_try[c])
    /\ \A i \in 1..Len(outcomes[c]) : FailedTry(c, i)

\* A message as the report shows it: as it is, or, with `cut`, its first 50
\* characters and "..." when it is longer than that.
Shown(e, cut) == IF cut /\ Len(e) > 50 THEN SubSeq(e, 1, 50) \o "..." ELSE e

\* "{candidate}: {message}" of tries i..n of call c joined with "; ".
RECURSIVE Report(_, _, _, _)
Report(c, i, n, cut) ==
    IF i > n THEN ""
    ELSE models_to_try[c][i] \o ": " \o Shown(FailureMessage(outcomes[c][i]), cut)
         \o (IF i = n THEN "" ELSE "; " \o Report(c, i + 1, n, cut))

\* C3 as stated: after every candidate failed the call returns finish reason
\* "error" and "Error: All models failed. " followed by one
\* "{candidate}: {message}" per candidate, in try order, joined with "; ".
C3_Original ==
    \A c \in Calls :
        (Returned(c) /\ AllFailed(c))
            => /\ RecordsOfTries(c, Len(models_to_try[c]))
               /\ result[c] = Some(Resp(Some("Error: All models failed. "
                      \o Report(c, 1, Len(models_to_try[c]), FALSE)), "error"))

\* C3, amended: the same, with a message longer than 50 characters shown as
\* its first 50 characters followed by "...".
C3_AllFailedReport ==
    \A c \in Calls :
        (Returned(c) /\ AllFailed(c))
            => /\ RecordsOfTries(c, Len(models_to_try[c]))
               /\ result[c] = Some(Resp(Some("Error: All models failed. "
                      \o Report(c, 1, Len(models_to_try[c]), TRUE)), "error"))

\* Three candidates failed, one of them with a message of 51 characters.
C3_Witness ==
    \E c \in Calls :
        /\ Returned(c)
        /\ errors[c] = << <<"b/y", Msg51>>, <<"a/x", "Unknown error">>,
                          <<"a/x", "timeout">> >>
        /\ result[c] # None
        /\ result[c][1].finish_reason = "error"

\* A step of call c.
Continues(c) ==
    \/ GetProvider(c)
    \/ AllModelsFailed(c)
    \/ \E r \in Responses : BackendReturn(c, r)
    \/ \E e \in Exceptions : BackendRaise(c, e)

\* C4: no call raises to its caller: whatever the resolutions and backends
\* do, a running call can go on, a call that ended returned a response, and
\* it ended on a success or after every candidate was tried.
C4_NeverRaises ==
    \A c \in Calls :
        /\ pc[c] # "raised"
        /\ pc[c] \in {"loop", "await"} => ENABLED Continues(c)
        /\ Returned(c) =>
              /\ result[c] # None
              /\ \/ SucceededTry(c, Len(outcomes[c])) /\ result[c][1] = outcomes[c][Len(outcomes[c])][2]
                 \/ AllFailed(c) /\ tried[c] = models_to_try[c]

\* A call whose three candidates failed in the three ways returned.
C4_Witness ==
    \E c \in Calls :
        /\ Returned(c)
        /\ outcomes[c] = << <<"resolve_raised", ResolveError>>, <<"raised", Msg51>>,
                            <<"returned", Resp(None, "error")>> >>
        /\ result[c][1].finish_reason = "error"

\* C10: a returned response is a soft failure exactly when its finish reason
\* is "error" or its content is non-empty and begins with
\* "Error calling LLM:"; a soft failure is recorded with the content, or with
\* "Unknown error" for an empty or absent content, and the loop goes on; any
\* other response ends the call and is its result.
C10_SoftFailureClassified ==
    \A c \in Calls : \A i \in 1..Len(outcomes[c]) :
        outcomes[c][i][1] = "returned"
            => LET r == outcomes[c][i][2]
               IN  IF SoftFailure(r)
                   THEN /\ Len(errors[c]) >= i
                        /\ errors[c][i][1] = models_to_try[c][i]
                        /\ errors[c][i][2] = IF r.content \in {None, Some("")}
                                             THEN "Unknown error"
                                             ELSE r.content[1]
                        /\ Returned(c) => result[c] # Some(r)
                   ELSE /\ i = Len(outcomes[c])
                        /\ Returned(c)
                        /\ result[c] = Some(r)
                        /\ Len(errors[c]) = i - 1

\* A soft failure by prefix, one by finish reason with empty content, then
\* a success without content.
C10_Witness ==
    \E c \in Calls :
        /\ Returned(c)
        /\ outcomes[c] = << <<"returned", Resp(Some("Error calling LLM: timeout"), "stop")>>,
                            <<"returned", Resp(Some(""), "error")>>,
                            <<"returned", Resp(None, "tool_calls")>> >>
        /\ errors[c][2][2] = "Unknown error"

\* ------------------------------------------------------ the client cache
\* This step is call c handing ModelName(c) to _get_provider_for_model.
Resolves(c) == tried'[c] # tried[c]

\* C8: resolving a model for which a client was stored before returns the
\* client the first resolution stored, reads no configuration and builds no
\* client, whatever the configuration has become.
C8_CachedClientReused ==
    [][\A c \in Calls :
          (Resolves(c) /\ ModelName(c) \in DOMAIN first_built)
              => /\ provider'[c] = Some(first_built[ModelName(c)])
                 /\ pc'[c] = "await"
                 /\ lookups' = lookups
                 /\ next_id' = next_id
                 /\ providers' = providers]_vars

\* The first call built the client of "a/x" under the first configuration;
\* the configuration changed; the second call built the client of "b/y"
\* under the second one, and then got the first call's client for "a/x".
C8_Witness ==
    /\ config = Config2
    /\ pc["c1"] = "await" /\ tried["c1"] = <<"a/x">>
    /\ pc["c2"] = "await" /\ tried["c2"] = <<"b/y", "a/x">>
    /\ provider["c2"] = provider["c1"]
    /\ provider["c2"][1].kind = ClientKind(Config1["a/x"], "a/x")
    /\ provider["c2"][1].kind # ClientKind(Config2["a/x"], "a/x")
    /\ "b/y" \in DOMAIN providers
    /\ providers["b/y"].id > provider["c1"][1].id
    /\ providers["b/y"].kind = ClientKind(Config2["b/y"], "b/y")
    /\ providers["b/y"].kind # ClientKind(Config1["b/y"], "b/y")

\* C9: with calls interleaved, an entry of the cache is never replaced or
\* removed, each entry holds the one client built for its key, different
\* keys hold different clients, and a call that resolves a model whose
\* entry exists gets the client of that entry.
C9_InsertIfAbsent ==
    [][/\ \A m \in DOMAIN providers :
             m \in DOMAIN providers' /\ providers'[m] = providers[m]
       /\ \A m \in DOMAIN providers' : providers'[m].default_model = m
       /\ \A m1, m2 \in DOMAIN providers' :
             providers'[m1].id = providers'[m2].id => m1 = m2
       /\ \A c \in Calls :
             (Resolves(c) /\ ModelName(c) \in DOMAIN providers)
                 => provider'[c] = Some(providers[ModelName(c)])]_vars

\* Two calls are awaiting the backend of the same model at the same time,
\* holding the same client; the second one got there by falling back.
C9_Witness ==
    /\ pc["c1"] = "await" /\ pc["c2"] = "await"
    /\ idx["c1"] = 0 /\ idx["c2"] = 1
    /\ ModelName("c1") = ModelName("c2")
    /\ provider["c1"] = provider["c2"]
    /\ provider["c1"] = Some(providers[ModelName("c1")])
    /\ Cardinality(DOMAIN providers) = 2

\* ------------------------------------------------- the aggregate report
\* One item of the report, as the specification words it: the candidate in
\* full, ": ", and the message, cut to 50 characters and "..." when longer.
ReportItem(rec) ==
    IF Len(rec[2]) <= 50
    THEN rec[1] \o ": " \o rec[2]
    ELSE rec[1] \o ": " \o SubSeq(rec[2], 1, 50) \o "..."

RECURSIVE ItemsJoined(_)
ItemsJoined(recs) ==
    IF recs = <<>> THEN ""
    ELSE IF Len(recs) = 1 THEN ReportItem(recs[1])
    ELSE ReportItem(recs[1]) \o "; " \o ItemsJoined(Tail(recs))

\* The "error" entries of a call's log.
ErrorLogs(c) == SelectSeq(log[c], LAMBDA ev : ev[1] = "error")

\* C11: the aggregate report built at exhaustion, logged and returned, shows
\* each Failure Record as its candidate in full (however long), ": " and its
\* message: verbatim when of 50 characters or fewer, else the first 50
\* characters followed by "...".
C11_ReportTruncation ==
    \A c \in Calls :
        (Returned(c) /\ AllFailed(c))
            => /\ result[c][1].content =
                    Some("Error: All models failed. " \o ItemsJoined(errors[c]))
               /\ ErrorLogs(c) = << <<"error", ItemsJoined(errors[c])>> >>

\* The report of a call whose three candidates failed with a message of 51
\* characters, one of 50 and a short one, the first candidate being a model
\* identifier of 63 characters.
C11_Witness ==
    \E c \in Calls :
        /\ Returned(c)
        /\ errors[c] = << <<LongModel, Msg51>>, <<"a/x", Msg50>>, <<"b/y", "timeout">> >>
        /\ result[c] = Some(Resp(Some("Error: All models failed. "
              \o LongModel \o ": " \o Msg50 \o "...; a/x: " \o Msg50 \o "; b/y: timeout"),
              "error"))

\* ------------------------------------------------------ order of the tries
\* Backend calls of call c that have started and not ended.
InFlight(c) ==
    Len(invoked[c])
    - Cardinality({i \in 1..Len(outcomes[c]) : outcomes[c][i][1] # "resolve_raised"})

\* C12: the tries of a call are the candidates in order, each position once;
\* a try begins only when every earlier try has ended in a failure; at most
\* one backend call of the call is in flight, and one is exactly while the
\* call awaits; a call that ended without a success tried every position.
C12_SequentialNoRetry ==
    \A c \in Calls :
        /\ Len(tried[c]) <= Len(models_to_try[c])
        /\ tried[c] = SubSeq(models_to_try[c], 1, Len(tried[c]))
        /\ Len(outcomes[c]) \in {Len(tried[c]), Len(tried[c]) - 1}
        /\ \A i \in 1..(Len(tried[c]) - 1) : FailedTry(c, i)
        /\ InFlight(c) = (IF pc[c] = "await" THEN 1 ELSE 0)
        /\ pc[c] = "await" => Len(outcomes[c]) = Len(tried[c]) - 1
        /\ Returned(c) =>
              /\ Len(outcomes[c]) = Len(tried[c])
              /\ SucceededTry(c, Len(outcomes[c])) \/ tried[c] = models_to_try[c]

\* The third candidate's backend call is in flight after two failures.
C12_Witness ==
    \E c \in Calls :
        /\ pc[c] = "await"
        /\ tried[c] = <<"d/z", "a/x", "b/y">>
        /\ Len(outcomes[c]) = 2
        /\ Len(errors[c]) = 2
        /\ InFlight(c) = 1

\* ------------------------------------------------------------- accessors
\* The configured model list: the list the constructor got, or the default
\* model alone when it got none.
ConfiguredList ==
    IF models_arg = None \/ models_arg = Some(<<>>)
    THEN <<default_model>>
    ELSE models_arg[1]

\* C13: whatever a caller does to a list get_models returned, the
\* dispatcher's list stays the configured one: the candidate list of every
\* call, the value of get_default_model and the value of every get_models
\* are those of the configured list.
C13_GetModelsCopy ==
    /\ models = ConfiguredList
    /\ got_models # None => got_models[1] = ConfiguredList
    /\ got_default # None => got_default[1] = Head(ConfiguredList)
    /\ \A c \in Calls :
          Started(c) =>
             models_to_try[c] =
                IF model[c] = None \/ model[c] = Some("")
                THEN ConfiguredList
                ELSE <<model[c][1]>> \o Without(ConfiguredList, model[c][1])

\* The caller emptied the list it got; after that a call was started, and
\* get_default_model and get_models were called.
C13_Witness ==
    /\ mutated
    /\ seen_after = {"chat", "default", "models"}
    /\ Len(ConfiguredList) > 1
    /\ Started("c1")
    /\ got_models = Some(ConfiguredList)
    /\ got_default = Some(Head(ConfiguredList))

\* ----------------------------------------------------------- termination
\* The state of a call in the state machine Start, Trying(i), Succeeded,
\* Exhausted; a call whose last candidate failed is Exhausted.
Phase(c) ==
    CASE pc[c] = "idle" -> <<"Start">>
      [] pc[c] = "await" -> <<"Trying", idx[c]>>
      [] pc[c] = "loop" /\ idx[c] < Len(models_to_try[c]) -> <<"Trying", idx[c]>>
      [] pc[c] = "loop" /\ idx[c] >= Len(models_to_try[c]) -> <<"Exhausted">>
      [] pc[c] = "done" /\ AllFailed(c) -> <<"Exhausted">>
      [] pc[c] = "done" /\ ~AllFailed(c) -> <<"Succeeded">>
      [] OTHER -> <<"Raised">>

\* The moves of the state machine, for a call with n candidates.
PhaseStep(from, to, n) ==
    \/ to = from
    \/ from = <<"Start">> /\ to = <<"Trying", 0>>
    \/ /\ from[1] = "Trying"
       /\ \/ to = <<"Trying", from[2] + 1>> /\ from[2] + 1 < n
          \/ to = <<"Succeeded">>
          \/ to = <<"Exhausted">> /\ from[2] = n - 1

\* C14: a started call ends, Succeeded or Exhausted, when every backend
\* call ends; it makes at most as many backend calls as it has candidates,
\* at most i + 1 of them up to Trying(i); and it moves only from Trying(i)
\* to Trying(i+1), to Succeeded or, from the last candidate, to Exhausted,
\* every recorded failure moving it on.
C14_Terminates ==
    /\ \A c \in Calls :
          Started(c) ~> (Returned(c) /\ Phase(c) \in {<<"Succeeded">>, <<"Exhausted">>})
    /\ [](\A c \in Calls :
              /\ Len(invoked[c]) <= Len(models_to_try[c])
              /\ Phase(c)[1] = "Trying" => Len(invoked[c]) <= Phase(c)[2] + 1
              /\ Phase(c)[1] # "Raised")
    /\ [][\A c \in Calls :
              /\ PhaseStep(Phase(c), Phase(c)', Len(models_to_try[c]'))
              /\ Len(errors[c]') > Len(errors[c]) => Phase(c)' # Phase(c)]_vars

\* A call with three candidates is Exhausted after three backend calls.
C14_Witness ==
    \E c \in Calls :
        /\ Returned(c)
        /\ Phase(c) = <<"Exhausted">>
        /\ Len(models_to_try[c]) = 3
        /\ Len(invoked[c]) = 3

\* ------------------------------------------------------------------ logs
Warnings(c) == SelectSeq(log[c], LAMBDA ev : ev[1] = "warning")

\* C15: the warnings a call has logged are, one for one and in order, its
\* Failure Records, so a failure is logged in the step that records it; and
\* the aggregate is logged once by a call that returned with every candidate
\* failed, and by no other call.
C15_FailuresLogged ==
    \A c \in Calls :
        /\ Len(Warnings(c)) = Len(errors[c])
        /\ \A i \in 1..Len(errors[c]) :
              Warnings(c)[i] = <<"warning", errors[c][i][1], errors[c][i][2]>>
        /\ Len(ErrorLogs(c)) = IF Returned(c) /\ AllFailed(c) THEN 1 ELSE 0

\* A call succeeded at its third candidate after a soft failure with no
\* content and a raised exception: two warnings, no aggregate.
C15_Witness ==
    \E c \in Calls :
        /\ Returned(c)
        /\ Len(outcomes[c]) = 3
        /\ SucceededTry(c, 3)
        /\ outcomes[c][1] = <<"returned", Resp(None, "error")>>
        /\ outcomes[c][2][1] = "raised"
        /\ Len(Warnings(c)) = 2
        /\ ErrorLogs(c) = <<>>

InfoLogs(c) == SelectSeq(log[c], LAMBDA ev : ev[1] = "info")

\* C16: a call has logged a fallback success exactly when it returned a
\* success from a try after its first, and then once, naming the candidate
\* it tried first and the candidate that succeeded; a call that succeeded at
\* its first try, failed, or has not returned has logged none.
C16_FallbackSuccessLogged ==
    \A c \in Calls :
        InfoLogs(c) =
            IF /\ Returned(c)
               /\ Len(outcomes[c]) > 1
               /\ SucceededTry(c, Len(outcomes[c]))
            THEN << <<"info", tried[c][1], tried[c][Len(outcomes[c])]>> >>
            ELSE <<>>

\* "b/y" raised and "a/x" returned "hi": the fallback "b/y" -> "a/x" is
\* logged.
C16_Witness ==
    \E c \in Calls :
        /\ Returned(c)
        /\ tried[c] = <<"b/y", "a/x">>
        /\ outcomes[c] = << <<"raised", "timeout">>,
                            <<"returned", Resp(Some("hi"), "stop")>> >>
        /\ result[c] = Some(Resp(Some("hi"), "stop"))
        /\ InfoLogs(c) = << <<"info", "b/y", "a/x">> >>

\* ---------------------------------------------------------- client type
\* The models a step adds to the cache.
NewKeys == (DOMAIN providers') \ (DOMAIN providers)

OAuthModel(m) ==
    Len(m) >= Len("openai-codex/") /\ SubSeq(m, 1, Len("openai-codex/")) = "openai-codex/"

\* C17: a client put in the cache for model m under provider name pn is the
\* OAuth client when pn is "openai_codex" or m starts with "openai-codex/";
\* if not, the direct-endpoint client when pn is "custom"; if not, the
\* gateway client; and its default model is m.
C17_ClientTypePriority ==
    [][\A m \in NewKeys :
          LET pn == config[m]
              client == providers'[m]
          IN  /\ client.default_model = m
              /\ client.kind \in {"OpenAICodexProvider", "CustomProvider", "LiteLLMProvider"}
              /\ client.kind = "OpenAICodexProvider"
                    <=> (pn = Some("openai_codex") \/ OAuthModel(m))
              /\ client.kind = "CustomProvider"
                    <=> (pn = Some("custom") /\ ~(pn = Some("openai_codex") \/ OAuthModel(m)))
              /\ client.kind = "LiteLLMProvider"
                    <=> (pn # Some("custom") /\ ~(pn = Some("openai_codex") \/ OAuthModel(m)))]_vars

\* Under provider name "custom" a model that starts with "openai-codex/" got
\* the OAuth client, "b/y" the direct-endpoint client and "a/x", under
\* "anthropic", the gateway client.
C17_Witness ==
    /\ config = Config1
    /\ config[LongModel] = Some("custom")
    /\ {LongModel, "a/x", "b/y"} \subseteq DOMAIN providers
    /\ providers[LongModel].kind = "OpenAICodexProvider"
    /\ providers[LongModel].default_model = LongModel
    /\ providers["b/y"].kind = "CustomProvider"
    /\ providers["a/x"].kind = "LiteLLMProvider"

\* ------------------------------------------------------------ lazy cache
\* The models the calls have reached as a candidate.
Reached == UNION {{tried[c][i] : i \in 1..Len(tried[c])} : c \in Calls}

\* C18: every key of the client cache is a model some call has reached as
\* a candidate; a configured model no call has tried has no entry.
C18_CacheKeysWereTried ==
    /\ DOMAIN providers \subseteq Reached
    /\ \A i \in 1..Len(models) : models[i] \notin Reached => models[i] \notin DOMAIN providers

\* Two calls have returned, both from the first candidate "a/x": the second
\* configured model "b/y" has no client.
C18_Witness ==
    /\ models = <<"a/x", "b/y">>
    /\ \A c \in Calls : Returned(c) /\ tried[c] = <<"a/x">> /\ SucceededTry(c, 1)
    /\ DOMAIN providers = {"a/x"}

\* ------------------------------------------------------ calls in parallel
\* The Failure Records the failed tries of call c make, from what its own
\* backends did.
OwnRecords(c) ==
    [i \in 1..Len(outcomes[c]) |->
        <<models_to_try[c][i], FailureMessage(outcomes[c][i])>>]

\* C19: with calls interleaved on one dispatcher, the outcome of a returned
\* call is a function of what its own candidates did: the response of its
\* last try when that succeeded, else the aggregate of the records of its
\* own failed tries and of nothing else; and a step that records a failure
\* of one call changes nothing of another call.
C19_RecordsPerCall ==
    /\ [](\A c \in Calls :
             Returned(c) =>
                IF SucceededTry(c, Len(outcomes[c]))
                THEN result[c] = Some(outcomes[c][Len(outcomes[c])][2])
                ELSE /\ AllFailed(c)
                     /\ errors[c] = OwnRecords(c)
                     /\ result[c] = Some(Resp(Some("Error: All models failed. "
                                                    \o ItemsJoined(OwnRecords(c))),
                                               "error")))
    /\ [][\A c \in Calls :
             errors'[c] # errors[c] =>
                \A d \in Calls \ {c} :
                    /\ errors'[d] = errors[d]
                    /\ result'[d] = result[d]
                    /\ pc'[d] = pc[d]
                    /\ idx'[d] = idx[d]]_vars

\* Both calls have returned: c1, asked for "b/y", with the failures of
\* "b/y" then "a/x"; c2 with the soft failure of "a/x" and the success of
\* "b/y".
C19_Witness ==
    /\ Returned("c1") /\ Returned("c2")
    /\ tried["c1"] = <<"b/y", "a/x">>
    /\ errors["c1"] = << <<"b/y", "timeout">>, <<"a/x", "Unknown error">> >>
    /\ result["c1"] = Some(Resp(Some("Error: All models failed. b/y: timeout; a/x: Unknown error"),
                                "error"))
    /\ tried["c2"] = <<"a/x", "b/y">>
    /\ errors["c2"] = << <<"a/x", "Unknown error">> >>
    /\ result["c2"] = Some(Resp(Some("hi"), "stop"))

\* ------------------------------------------------- resolution that raises
\* Call c takes a step in which the resolution of its candidate raises.
ResolutionRaises(c) ==
    /\ Len(outcomes'[c]) = Len(outcomes[c]) + 1
    /\ outcomes'[c][Len(outcomes'[c])][1] = "resolve_raised"

\* C20: when the resolution of a candidate raises, the call records the
\* exception as a failure of that candidate and goes on to its next
\* candidate, raising nothing and returning nothing, and the cache is as it
\* was, with no entry for the candidate; and every try of a model with no
\* cache entry, an earlier failed resolution or not, reads the configuration
\* again.
C20_ResolutionFailure ==
    /\ [][\A c \in Calls :
             ResolutionRaises(c) =>
                /\ errors'[c] = Append(errors[c],
                                       <<models_to_try[c][idx[c] + 1],
                                         outcomes'[c][Len(outcomes'[c])][2]>>)
                /\ idx'[c] = idx[c] + 1
                /\ pc'[c] = "loop"
                /\ result'[c] = result[c]
                /\ providers' = providers
                /\ models_to_try[c][idx[c] + 1] \notin DOMAIN providers']_vars
    /\ [][\A c \in Calls :
             (Resolves(c) /\ models_to_try[c][idx[c] + 1] \notin DOMAIN providers) =>
                /\ lookups' = lookups + 1
                /\ \/ ResolutionRaises(c)
                   \/ DOMAIN providers' = DOMAIN providers \cup {models_to_try[c][idx[c] + 1]}]_vars

\* The resolution of "a/x" raised in c1, which went on to "b/y"; a later
\* try of "a/x", by c2, resolved it anew and stored a client.
C20_Witness ==
    /\ tried["c1"] = <<"a/x", "b/y">>
    /\ outcomes["c1"][1] = <<"resolve_raised", ResolveError>>
    /\ errors["c1"][1] = <<"a/x", ResolveError>>
    /\ Returned("c1")
    /\ tried["c2"] = <<"a/x">>
    /\ pc["c2"] = "await"
    /\ "a/x" \in DOMAIN providers
    /\ lookups >= 3
====
